---- MODULE Spec2Model ----
(***************************************************************************)
(* Function-endpoint resolution (FuncManager, package module) and the      *)
(* cold-start admission gate around it (ProxyHandler, package handler) of  *)
(* serverless-stable-diffusion-api.                                        *)
(*                                                                         *)
(* Several request threads of several control-plane processes resolve a    *)
(* model key to an endpoint.  Each process has its own FuncManager (cache, *)
(* lock, lastInvokeEndpoint) and its own admission gate; the function      *)
(* store (datastore) and the function-compute backend are shared.          *)
(***************************************************************************)
EXTENDS Naturals, FiniteSets, Sequences, TLC

\* ------------------------------------------------------------------ bounds

\* Number of requests; each is served by a thread of its own.
NumThreads == 2

\* Largest COLD_START_CONCURRENCY value the environment sets.
MaxCeiling == 2

\* Last second the clock reaches.
MaxClock == 3

Threads == 1 .. NumThreads

Procs == {"A", "B"}

\* stable_diffusion_model values carried by requests ("" = none given).
SdModels == {"", "m1"}

\* Keys under which bindings are cached and stored.
Keys == {"default", "m1"}

\* ------------------------------------------------------- program constants

\* A retry budget one too large.
RetryBudgetThree == 2 + 1

\* reTry := 2
RetryBudget == 2

\* config.ColdStartConcurrency
ColdStartConcurrency == 10

\* The empty endpoint, "".
NoEndpoint == ""

SingleFunc == "singleFunc"

MultiFunc == "multiFunc"

\* ------------------------------------------------------------------- state

VARIABLES
    ConfigGlobal,        \* [FlexMode, ServiceName, ColdStartConcurrency]
    proc,                \* thread -> the process it runs in
    endpoints,           \* process -> key -> cached endpoint ("" = no entry)
    lastInvokeEndpoint,  \* process -> endpoint
    lock,                \* process -> thread holding f.lock exclusively, 0 = free
    funcStore,           \* shared store: key -> persisted endpoint ("" = no row)
    fcFunctions,         \* backend: names of the functions that exist
    fcTriggers,          \* backend: names of the functions that have the http trigger
    pc,                  \* thread -> position
    frame,               \* thread -> locals of its call (sdModel, key, reTry, endpoint, err)
    hist,                \* thread -> what its current call has done (observation only)
    returned,            \* process -> key -> endpoint last returned by GetEndpoint
    lastResolved,        \* process -> endpoint of its most recent successful resolution
    provisioned,         \* process -> key -> createFunc has succeeded in the process
    putBy,               \* key -> process whose Put wrote the row ("" = none)
    inFlightCount,       \* process -> sdModel -> cold starts in flight
    waitingCount,        \* process -> sdModel -> requests inside the gate
    gate,                \* thread -> its request at the gate: [handler, owner,
                         \* blockedOn, behind = the owner it waits for] and what
                         \* was called for it (waitToValid =
                         \* the value WaitToValid returned, doneTask, decColdNum)
    fcConfig,            \* backend: function name -> [resource, refresh] it runs with
    clock,               \* utils.TimestampS(), in seconds
    admin,               \* the administrative operation in progress in process A
    environ,             \* the environment and the yaml file a process starts with
    initErr,             \* what InitConfig returned ("unset" = it has not run)
    lastModifyTime,      \* key -> KModelServiceLastModifyTime of its row (0 = no
                         \* row, or one written before the process started)
    readers,             \* process -> thread -> read locks it holds on f.lock
    task,                \* the row of one task id in taskStore: [exists, status,
                         \* code, progress], "" = the column is not set
    reply                \* the answer to the last task query and the row it read

vars == <<ConfigGlobal, proc, endpoints, lastInvokeEndpoint, lock, funcStore,
          fcFunctions, fcTriggers, pc, frame, hist, returned, lastResolved,
          provisioned, putBy, inFlightCount, waitingCount, gate,
          fcConfig, clock, admin, environ, initErr, lastModifyTime, readers,
          task, reply>>

\* The task row and the answer to the last query about it.
taskVars == <<task, reply>>

\* The state of start-up, the time a row was last written, the read locks held
\* and the task row; all but InitConfig, putFunc, the steps of
\* GetLastInvokeEndpoint's locking and the task handlers leave them alone.
extVars == <<environ, initErr, lastModifyTime, readers, taskVars>>

adminVars == <<fcConfig, clock, admin>>

resolverVars == <<endpoints, lastInvokeEndpoint, lock, funcStore, fcFunctions,
                  fcTriggers, frame, hist, returned, lastResolved, provisioned, putBy>>

gateVars == <<inFlightCount, waitingCount, gate>>

\* ------------------------------------------------------------ pure helpers

\* A GetFlexMode that ignores the configured mode.
GetFlexModeMulti(cfg) == MultiFunc

\* Config.GetFlexMode
GetFlexMode(cfg) == IF cfg.FlexMode = "singleFunc" THEN SingleFunc ELSE MultiFunc

\* isFc3
isFc3(cfg) == cfg.ServiceName = ""

\* InitFuncManager constructs one client: fc3Client if isFc3(), fcClient otherwise.
ConstructedClient(cfg) == IF isFc3(cfg) THEN "fc3Client" ELSE "fcClient"

\* A dispatch that uses the older generation's client whatever the configuration.
DispatchFcClient(cfg) == "fcClient"

\* The client a backend call goes through: `if isFc3() { f.fc3Client... } else
\* { f.fcClient... }` in createFunc, GetFcFunc, UpdateFunctionEnv and
\* UpdateFunctionResource.
Dispatch(cfg) == IF isFc3(cfg) THEN "fc3Client" ELSE "fcClient"

\* key := "default"; if GetFlexMode() == MultiFunc && sdModel != "" { key = sdModel }
ResolveKey(cfg, sdModel) ==
    IF GetFlexMode(cfg) = MultiFunc /\ sdModel # "" THEN sdModel ELSE "default"

\* utils.Hash: a deterministic, collision-free digest of the key.
Hash(key) == CASE key = "default" -> "c21f969b"
               [] key = "m1"      -> "5b1c8f4e"
               [] OTHER           -> "00000000"

\* A GetFunctionName that puts the key itself after the prefix.
GetFunctionNamePlain(key) == "sd_" \o key

\* GetFunctionName: fmt.Sprintf("sd_%s", utils.Hash(key))
GetFunctionName(key) == "sd_" \o Hash(key)

\* A createFunc that names the function after the request's model.
createFuncNameOfModel(key, sdModel) == GetFunctionName(sdModel)

\* createFunc: functionName := GetFunctionName(key)
createFuncName(key, sdModel) == GetFunctionName(key)

\* The internet URL the backend reports for a function's http trigger.
UrlInternet(functionName) == "https://" \o functionName \o ".fcapp.run"

Endpoints == {UrlInternet(GetFunctionName(k)) : k \in Keys}

FunctionNames == {GetFunctionName(k) : k \in Keys}

\* No error (nil).
NoError == ""

\* err.Error() of an UpdateFunction call the backend rejected.
UpdateError(functionName) == "UpdateFunction " \o functionName \o " failed"

\* The resource spec a batch asks for; "r0" is what a function is created with.
Resources == {"r1", "r2"}

\* The elements of a list.
Range(list) == {list[i] : i \in 1 .. Len(list)}

\* A cache lookup that never hits.
getEndpointFromCacheMiss(cache, key) == NoEndpoint

\* getEndpointFromCache: f.endpoints[key][0] if present, else ""
getEndpointFromCache(cache, key) == cache[key]

\* getEndpointFromDb's test: err == nil && len(data) > 0
dbHit(getOk, row) == getOk /\ row # NoEndpoint

\* createFunc's test: err == nil && endpoint != ""
createOk(errNil, endpoint) == errNil /\ endpoint # NoEndpoint

NoFrame == [sdModel |-> "", key |-> "default", reTry |-> 0,
            endpoint |-> NoEndpoint, err |-> FALSE]

NoHist == [known |-> NoEndpoint, persisted |-> NoEndpoint, created |-> FALSE,
           wrote |-> FALSE, failed |-> FALSE, afterProv |-> FALSE,
           attempts |-> 0, how |-> "none", made |-> 0, name |-> "", config |-> 0,
           api |-> "none"]

NoAdmin == [op |-> "none", pc |-> "idle", input |-> {}, pending |-> {},
            resource |-> "r0", success |-> <<>>, fail |-> <<>>, errs |-> <<>>,
            issued |-> <<>>, calls |-> <<>>, err |-> NoError,
            access |-> "none", held |-> "none", api |-> "none"]

NoGate == [handler |-> "none", owner |-> FALSE, blockedOn |-> "none", behind |-> 0,
           waitToValid |-> FALSE, doneTask |-> 0, decColdNum |-> 0,
           answer |-> "none"]

\* ------------------------------------------------------------------- Init

\* No row for the task id.
NoTask == [exists |-> FALSE, status |-> "", code |-> "", progress |-> ""]

\* No task query has been answered.
NoReply == [op |-> "none", row |-> NoTask, http |-> "", err |-> "",
            status |-> "", progress |-> ""]

\* The environment of a process whose start-up is not looked at.
NoEnviron == [file |-> "ok", flexMode |-> "", serverName |-> "", downstream |-> "",
              ACCOUNT_ID |-> "", ACCESS_KEY_ID |-> "", ACCESS_KEY_SECRET |-> "",
              REGION |-> "", SERVICE_NAME |-> "", FLEX_MODE |-> "",
              SERVER_NAME |-> "", DOWNSTREAM |-> ""]

\* No request and no administrative operation has started.
InitRequests ==
    /\ lock = [p \in Procs |-> 0]
    /\ pc = [t \in Threads |-> "idle"]
    /\ frame = [t \in Threads |-> NoFrame]
    /\ hist = [t \in Threads |-> NoHist]
    /\ returned = [p \in Procs |-> [k \in Keys |-> NoEndpoint]]
    /\ lastResolved = [p \in Procs |-> NoEndpoint]
    /\ provisioned = [p \in Procs |-> [k \in Keys |-> FALSE]]
    /\ putBy = [k \in Keys |-> ""]
    /\ inFlightCount = [p \in Procs |-> [m \in SdModels |-> 0]]
    /\ waitingCount = [p \in Procs |-> [m \in SdModels |-> 0]]
    /\ gate = [t \in Threads |-> NoGate]
    /\ fcConfig = [n \in FunctionNames |-> [resource |-> "r0", refresh |-> 0]]
    /\ clock = 1
    /\ admin = NoAdmin
    /\ environ = NoEnviron
    /\ initErr = "unset"
    /\ lastModifyTime = [k \in Keys |-> 0]
    /\ readers = [p \in Procs |-> [t \in Threads |-> 0]]
    /\ task = NoTask
    /\ reply = NoReply

\* The processes start on an empty store and an empty backend: loadFunc loads
\* nothing.
InitResolver ==
    /\ endpoints = [p \in Procs |-> [k \in Keys |-> NoEndpoint]]
    /\ lastInvokeEndpoint = [p \in Procs |-> NoEndpoint]
    /\ funcStore = [k \in Keys |-> NoEndpoint]
    /\ fcFunctions = {}
    /\ fcTriggers = {}
    /\ InitRequests

\* Two processes share the store and the backend.  Every request arrives at
\* process A, or the last one arrives at process B.  COLD_START_CONCURRENCY is
\* not set.
Init ==
    /\ ConfigGlobal \in [FlexMode : {"singleFunc", "multiFunc"},
                         ServiceName : {"", "svc"},
                         ColdStartConcurrency : {ColdStartConcurrency}]
    /\ \E last \in Procs :
          proc = [t \in Threads |-> IF t = NumThreads THEN last ELSE "A"]
    /\ InitResolver

\* ------------------------------------------------------------ GetEndpoint

\* The call returns (endpoint, err) to its caller.
Return(t, endpoint, isErr, how, wroteCache) ==
    /\ pc' = [pc EXCEPT ![t] = "ret"]
    /\ frame' = [frame EXCEPT ![t].endpoint = endpoint, ![t].err = isErr]
    /\ hist' = [hist EXCEPT ![t].how = how,
                            ![t].wrote = hist[t].wrote \/ wroteCache]
    /\ returned' = IF isErr THEN returned
                   ELSE [returned EXCEPT ![proc[t]][frame[t].key] = endpoint]
    /\ lastResolved' = IF isErr THEN lastResolved
                       ELSE [lastResolved EXCEPT ![proc[t]] = endpoint]

\* GetEndpoint entered with sdModel: key derivation and reTry := 2.
EnterGetEndpoint(t, sdModel) ==
    LET key == ResolveKey(ConfigGlobal, sdModel) IN
    /\ frame' = [frame EXCEPT ![t] = [sdModel |-> sdModel, key |-> key,
                                      reTry |-> RetryBudget,
                                      endpoint |-> NoEndpoint, err |-> FALSE]]
    /\ hist' = [hist EXCEPT ![t] = [NoHist EXCEPT
                    !.known = returned[proc[t]][key],
                    !.persisted = IF putBy[key] \notin {"", proc[t]}
                                  THEN funcStore[key] ELSE NoEndpoint]]
    /\ pc' = [pc EXCEPT ![t] = "cache"]

\* A thread calls GetEndpoint(sdModel).
GetEndpoint(t) ==
    /\ pc[t] = "idle"
    /\ \E sdModel \in SdModels : EnterGetEndpoint(t, sdModel)
    /\ UNCHANGED <<extVars, ConfigGlobal, proc, adminVars, endpoints, lastInvokeEndpoint, lock,
                   funcStore, fcFunctions, fcTriggers, returned, lastResolved, provisioned,
                   putBy, gateVars>>

\* A cache hit that does not record the endpoint as last used.
CacheLookupNoRecord(t) ==
    LET p == proc[t]
        endpoint == getEndpointFromCache(endpoints[p], frame[t].key) IN
    /\ pc[t] = "cache"
    /\ frame[t].reTry > 0
    /\ lock[p] = 0
    /\ IF endpoint # NoEndpoint
       THEN /\ UNCHANGED lastInvokeEndpoint
            /\ Return(t, endpoint, FALSE, "cache", FALSE)
       ELSE /\ pc' = [pc EXCEPT ![t] = "lock"]
            /\ UNCHANGED <<lastInvokeEndpoint, frame, hist, returned, lastResolved>>
    /\ UNCHANGED <<extVars, ConfigGlobal, proc, adminVars, endpoints, lock, funcStore, fcFunctions,
                   fcTriggers, provisioned, putBy, gateVars>>

\* for reTry > 0 { if endpoint := f.getEndpointFromCache(key); endpoint != "" {...} }
\* The read lock is taken and released inside getEndpointFromCache.
CacheLookup(t) ==
    LET p == proc[t]
        endpoint == getEndpointFromCache(endpoints[p], frame[t].key) IN
    /\ pc[t] = "cache"
    /\ frame[t].reTry > 0
    /\ lock[p] = 0
    /\ IF endpoint # NoEndpoint
       THEN /\ lastInvokeEndpoint' = [lastInvokeEndpoint EXCEPT ![p] = endpoint]
            /\ Return(t, endpoint, FALSE, "cache", FALSE)
       ELSE /\ pc' = [pc EXCEPT ![t] = "lock"]
            /\ UNCHANGED <<lastInvokeEndpoint, frame, hist, returned, lastResolved>>
    /\ UNCHANGED <<extVars, ConfigGlobal, proc, adminVars, endpoints, lock, funcStore, fcFunctions,
                   fcTriggers, provisioned, putBy, gateVars>>

\* The loop ends with reTry = 0: return "", errors.New("not get sd endpoint")
Exhausted(t) ==
    /\ pc[t] = "cache"
    /\ frame[t].reTry = 0
    /\ Return(t, NoEndpoint, TRUE, "none", FALSE)
    /\ UNCHANGED <<extVars, ConfigGlobal, proc, adminVars, endpoints, lastInvokeEndpoint, lock,
                   funcStore, fcFunctions, fcTriggers, provisioned,
                   putBy, gateVars>>

\* A Lock that does not wait for the lock to be free.
AcquireLockUnguarded(t) ==
    LET p == proc[t] IN
    /\ pc[t] = "lock"
    /\ lock' = [lock EXCEPT ![p] = t]
    /\ pc' = [pc EXCEPT ![t] = "db"]
    /\ hist' = [hist EXCEPT ![t].afterProv = provisioned[p][frame[t].key],
                            ![t].attempts = hist[t].attempts + 1]
    /\ UNCHANGED <<extVars, ConfigGlobal, proc, adminVars, endpoints, lastInvokeEndpoint, funcStore,
                   fcFunctions, fcTriggers, frame, returned, lastResolved, provisioned,
                   putBy, gateVars>>

\* f.lock.Lock()
AcquireLock(t) ==
    LET p == proc[t] IN
    /\ pc[t] = "lock"
    /\ lock[p] = 0
    /\ lock' = [lock EXCEPT ![p] = t]
    /\ pc' = [pc EXCEPT ![t] = "db"]
    /\ hist' = [hist EXCEPT ![t].afterProv = provisioned[p][frame[t].key],
                            ![t].attempts = hist[t].attempts + 1]
    /\ UNCHANGED <<extVars, ConfigGlobal, proc, adminVars, endpoints, lastInvokeEndpoint, funcStore,
                   fcFunctions, fcTriggers, frame, returned, lastResolved, provisioned,
                   putBy, gateVars>>

\* getEndpointFromDb under the lock; the store's Get succeeds or fails.
DbLookup(t) ==
    LET p == proc[t]
        key == frame[t].key
        row == funcStore[key] IN
    /\ pc[t] = "db"
    /\ \E getOk \in BOOLEAN :
         IF dbHit(getOk, row)
         THEN /\ endpoints' = [endpoints EXCEPT ![p][key] = row]
              /\ lastInvokeEndpoint' = [lastInvokeEndpoint EXCEPT ![p] = row]
              /\ lock' = [lock EXCEPT ![p] = 0]
              /\ Return(t, row, FALSE, "db", TRUE)
         ELSE /\ pc' = [pc EXCEPT ![t] = "createFn"]
              /\ UNCHANGED <<endpoints, lastInvokeEndpoint, lock, frame, hist,
                             returned, lastResolved>>
    /\ UNCHANGED <<extVars, ConfigGlobal, proc, adminVars, funcStore, fcFunctions, fcTriggers, provisioned, putBy, gateVars>>

\* createFunc returned "": f.lock.Unlock(); reTry--; time.Sleep(RETRY_INTERVALMS)
NextAttempt(t) ==
    /\ lock' = [lock EXCEPT ![proc[t]] = 0]
    /\ frame' = [frame EXCEPT ![t].reTry = frame[t].reTry - 1]
    /\ pc' = [pc EXCEPT ![t] = "cache"]

\* createFunc's last branch for the outcome (err, endpoint) of the create calls:
\* success goes on to the cache update and putFunc; otherwise logrus.Info(err.Error()),
\* which dereferences a nil err when the calls reported none.
CreateOutcome(t, errNil, endpoint) ==
    IF createOk(errNil, endpoint)
    THEN /\ pc' = [pc EXCEPT ![t] = "putFunc"]
         /\ frame' = [frame EXCEPT ![t].endpoint = endpoint]
         /\ UNCHANGED lock
    ELSE IF errNil
    THEN /\ pc' = [pc EXCEPT ![t] = "panic"]
         /\ UNCHANGED <<frame, lock>>
    ELSE NextAttempt(t)

\* createFunc, first backend call: createFc3Function / createFCFunction up to
\* CreateFunction.  The backend refuses a name that exists and may refuse any call.
\* The function is created with the environment of getEnv, whose refresh signal
\* is the time of the call.
CreateFunction(t) ==
    LET functionName == createFuncName(frame[t].key, frame[t].sdModel) IN
    /\ pc[t] = "createFn"
    /\ \/ \* getCreateFuncRequestFc3 returned nil: the reference function is unreadable
          /\ Dispatch(ConfigGlobal) = "fc3Client"
          /\ CreateOutcome(t, FALSE, NoEndpoint)
          /\ hist' = [hist EXCEPT ![t].failed = TRUE, ![t].config = @ + 1,
                                  ![t].api = Dispatch(ConfigGlobal)]
          /\ UNCHANGED <<fcFunctions, fcConfig>>
       \/ \* the backend rejects the create-function call
          /\ CreateOutcome(t, FALSE, NoEndpoint)
          /\ hist' = [hist EXCEPT ![t].failed = TRUE, ![t].created = TRUE,
                                  ![t].name = functionName,
                                  ![t].api = Dispatch(ConfigGlobal)]
          /\ UNCHANGED <<fcFunctions, fcConfig>>
       \/ \* the backend creates the function
          /\ functionName \notin fcFunctions
          /\ fcFunctions' = fcFunctions \cup {functionName}
          /\ fcConfig' = [fcConfig EXCEPT ![functionName].refresh = clock]
          /\ pc' = [pc EXCEPT ![t] = "createTrigger"]
          /\ hist' = [hist EXCEPT ![t].created = TRUE, ![t].made = @ + 1,
                                  ![t].name = functionName,
                                  ![t].api = Dispatch(ConfigGlobal)]
          /\ UNCHANGED <<frame, lock>>
    /\ UNCHANGED <<extVars, ConfigGlobal, proc, clock, admin, endpoints, lastInvokeEndpoint,
                   funcStore, fcTriggers, returned, lastResolved, provisioned, putBy,
                   gateVars>>

\* createFunc, second backend call: CreateTrigger and the URL it reports.
CreateTrigger(t) ==
    LET functionName == createFuncName(frame[t].key, frame[t].sdModel) IN
    /\ pc[t] = "createTrigger"
    /\ \/ \* the backend rejects the create-trigger call
          /\ CreateOutcome(t, FALSE, NoEndpoint)
          /\ hist' = [hist EXCEPT ![t].failed = TRUE]
          /\ UNCHANGED fcTriggers
       \/ \* the trigger is created; the response carries its URL, or none
          /\ functionName \notin fcTriggers
          /\ fcTriggers' = fcTriggers \cup {functionName}
          /\ \E url \in {UrlInternet(functionName), NoEndpoint} :
                CreateOutcome(t, TRUE, url)
          /\ UNCHANGED hist
    /\ UNCHANGED <<extVars, ConfigGlobal, proc, adminVars, endpoints, lastInvokeEndpoint, funcStore,
                   fcFunctions, returned, lastResolved, provisioned, putBy, gateVars>>

\* createFunc's success branch and GetEndpoint's return after it:
\* f.endpoints[key] = ...; f.putFunc(...) (its error is dropped); Unlock; return.
PutFunc(t) ==
    LET p == proc[t]
        key == frame[t].key
        endpoint == frame[t].endpoint IN
    /\ pc[t] = "putFunc"
    /\ endpoints' = [endpoints EXCEPT ![p][key] = endpoint]
    /\ \E putOk \in BOOLEAN :
         IF putOk
         THEN /\ funcStore' = [funcStore EXCEPT ![key] = endpoint]
              /\ putBy' = [putBy EXCEPT ![key] = p]
              /\ lastModifyTime' = [lastModifyTime EXCEPT ![key] = clock]
         ELSE UNCHANGED <<funcStore, putBy, lastModifyTime>>
    /\ provisioned' = [provisioned EXCEPT ![p][key] = TRUE]
    /\ lastInvokeEndpoint' = [lastInvokeEndpoint EXCEPT ![p] = endpoint]
    /\ lock' = [lock EXCEPT ![p] = 0]
    /\ Return(t, endpoint, FALSE, "create", TRUE)
    /\ UNCHANGED <<environ, initErr, readers, taskVars, ConfigGlobal, proc, adminVars, fcFunctions, fcTriggers, gateVars>>

Resolve(t) ==
    \/ CacheLookup(t)
    \/ Exhausted(t)
    \/ AcquireLock(t)
    \/ DbLookup(t)
    \/ CreateFunction(t)
    \/ CreateTrigger(t)
    \/ PutFunc(t)

Next == \E t \in Threads : GetEndpoint(t) \/ Resolve(t)

Spec == Init /\ [][Next]_vars

\* ------------------------------------------------- cold-start admission gate

\* Cold starts in flight in process p, over all models.
ColdNum(p) == inFlightCount[p][""] + inFlightCount[p]["m1"]

\* WaitToValid's admission test: no cold start of the model is in flight and the
\* ceiling is not reached.
Admissible(p, sdModel) ==
    /\ inFlightCount[p][sdModel] = 0
    /\ ColdNum(p) < ConfigGlobal.ColdStartConcurrency

\* What keeps a WaitToValid(sdModel) call from returning at once.
BlockedOn(p, sdModel) ==
    IF inFlightCount[p][sdModel] > 0 THEN "inflight"
    ELSE IF ColdNum(p) >= ConfigGlobal.ColdStartConcurrency THEN "ceiling"
    ELSE "none"

\* The request that owns the cold start of sdModel in flight in process p
\* (0 = none).
ColdStartOwner(p, sdModel) ==
    LET owns(o) == /\ proc[o] = p
                   /\ gate[o].owner
                   /\ pc[o] # "end"
                   /\ frame[o].sdModel = sdModel IN
    IF \E o \in Threads : owns(o) THEN CHOOSE o \in Threads : owns(o) ELSE 0

\* A handler that defers DecColdNum whatever WaitToValid returned.
DefersDecColdNumAlways(waitToValid) == TRUE

\* A handler that never defers DecColdNum.
DefersDecColdNumNever(waitToValid) == FALSE

\* A handler that defers DecColdNum when WaitToValid returned false.
DefersDecColdNumInverted(waitToValid) == ~waitToValid

\* if WaitToValid(sdModel) { defer DecColdNum(sdModel, taskId) }
DefersDecColdNum(waitToValid) == waitToValid

\* Handlers that resolve every request with GetEndpoint.
UsesGetEndpointAlways(handler, sdModel) == TRUE

\* NoRouterHandler: if sdModel == "" { GetLastInvokeEndpoint } else { GetEndpoint };
\* Img2Img always calls GetEndpoint.
UsesGetEndpoint(handler, sdModel) == handler = "Img2Img" \/ sdModel # ""

\* The model values a handler passes to the gate.  Img2Img answers 400 before the
\* gate unless checkSdModelValid accepts the model, taken here to refuse "";
\* NoRouterHandler passes "" when the body names no model.
HandlerModels(handler) ==
    IF handler = "Img2Img" THEN SdModels \ {""} ELSE SdModels

\* GetLastInvokeEndpoint entered with &sdModel (a nil pointer is treated as "").
EnterGetLastInvokeEndpoint(t, sdModel) ==
    /\ frame' = [frame EXCEPT ![t] = [NoFrame EXCEPT !.sdModel = sdModel]]
    /\ hist' = [hist EXCEPT ![t] = [NoHist EXCEPT !.how = "lastInvoke"]]
    /\ pc' = [pc EXCEPT ![t] = "lastInvoke"]

\* WaitToValid has returned: the handler registers its defers and resolves the
\* endpoint.
Resolving(t, handler, sdModel, waitToValid) ==
    /\ gate' = [gate EXCEPT ![t] = [NoGate EXCEPT
                                       !.handler = handler,
                                       !.owner = DefersDecColdNum(waitToValid),
                                       !.behind = gate[t].behind,
                                       !.waitToValid = waitToValid]]
    /\ IF UsesGetEndpoint(handler, sdModel)
       THEN EnterGetEndpoint(t, sdModel)
       ELSE EnterGetLastInvokeEndpoint(t, sdModel)

\* A control-role request enters Img2Img or NoRouterHandler and calls
\* WaitToValid(sdModel): waitingCount++, then admission or blocking.
WaitToValid(t) ==
    LET p == proc[t] IN
    /\ pc[t] = "idle"
    /\ \E handler \in {"Img2Img", "NoRouterHandler"} :
       \E sdModel \in HandlerModels(handler) :
         /\ waitingCount' = [waitingCount EXCEPT ![p][sdModel] = @ + 1]
         /\ IF Admissible(p, sdModel)
            THEN /\ inFlightCount' = [inFlightCount EXCEPT ![p][sdModel] = @ + 1]
                 /\ Resolving(t, handler, sdModel, TRUE)
            ELSE /\ gate' = [gate EXCEPT ![t] = [NoGate EXCEPT
                                       !.handler = handler,
                                       !.blockedOn = BlockedOn(p, sdModel),
                                       !.behind = ColdStartOwner(p, sdModel)]]
                 /\ frame' = [frame EXCEPT ![t] = [NoFrame EXCEPT !.sdModel = sdModel]]
                 /\ pc' = [pc EXCEPT ![t] = "gateWait"]
                 /\ UNCHANGED <<inFlightCount, hist>>
    /\ UNCHANGED <<extVars, ConfigGlobal, proc, adminVars, endpoints, lastInvokeEndpoint, lock,
                   funcStore, fcFunctions, fcTriggers, returned, lastResolved, provisioned, putBy>>

\* A call blocked by the ceiling is admitted once a slot is free, or goes on
\* waiting behind a cold start of its own model.
Admit(t) ==
    LET p == proc[t]
        sdModel == frame[t].sdModel IN
    /\ pc[t] = "gateWait"
    /\ gate[t].blockedOn = "ceiling"
    /\ ColdNum(p) < ConfigGlobal.ColdStartConcurrency
    /\ IF Admissible(p, sdModel)
       THEN /\ inFlightCount' = [inFlightCount EXCEPT ![p][sdModel] = @ + 1]
            /\ Resolving(t, gate[t].handler, sdModel, TRUE)
       ELSE /\ gate' = [gate EXCEPT ![t].blockedOn = "inflight",
                                    ![t].behind = ColdStartOwner(p, sdModel)]
            /\ UNCHANGED <<inFlightCount, frame, hist, pc>>
    /\ UNCHANGED <<extVars, ConfigGlobal, proc, adminVars, endpoints, lastInvokeEndpoint, lock,
                   funcStore, fcFunctions, fcTriggers, returned, lastResolved, provisioned,
                   putBy, waitingCount>>

\* A call that waited behind a cold start of its model returns false once
\* DecColdNum has released it.
Released(t) ==
    /\ pc[t] = "gateWait"
    /\ gate[t].blockedOn = "released"
    /\ Resolving(t, gate[t].handler, frame[t].sdModel, FALSE)
    /\ UNCHANGED <<extVars, ConfigGlobal, proc, adminVars, endpoints, lastInvokeEndpoint, lock,
                   funcStore, fcFunctions, fcTriggers, returned, lastResolved, provisioned,
                   putBy, inFlightCount, waitingCount>>

\* A GetLastInvokeEndpoint that resolves the key like GetEndpoint when the cache
\* does not have it.
GetLastInvokeEndpointResolving(t) ==
    LET p == proc[t]
        sdModel == frame[t].sdModel
        endpoint == IF sdModel = "" THEN NoEndpoint
                    ELSE getEndpointFromCache(endpoints[p], sdModel) IN
    /\ pc[t] = "lastInvoke"
    /\ lock[p] = 0
    /\ IF endpoint # NoEndpoint
       THEN /\ lastInvokeEndpoint' = [lastInvokeEndpoint EXCEPT ![p] = endpoint]
            /\ lastResolved' = [lastResolved EXCEPT ![p] = endpoint]
            /\ frame' = [frame EXCEPT ![t].endpoint = endpoint]
            /\ pc' = [pc EXCEPT ![t] = "ret"]
       ELSE /\ frame' = [frame EXCEPT ![t].key = ResolveKey(ConfigGlobal, sdModel),
                                      ![t].reTry = RetryBudget]
            /\ pc' = [pc EXCEPT ![t] = "lock"]
            /\ UNCHANGED <<lastInvokeEndpoint, lastResolved>>
    /\ UNCHANGED <<extVars, ConfigGlobal, proc, adminVars, endpoints, lock, funcStore, fcFunctions,
                   fcTriggers, hist, returned, provisioned, putBy, gateVars>>

\* GetLastInvokeEndpoint(&sdModel), under the read lock.
GetLastInvokeEndpoint(t) ==
    LET p == proc[t]
        sdModel == frame[t].sdModel
        endpoint == IF sdModel = "" THEN NoEndpoint
                    ELSE getEndpointFromCache(endpoints[p], sdModel) IN
    /\ pc[t] = "lastInvoke"
    /\ lock[p] = 0
    /\ IF endpoint # NoEndpoint
       THEN /\ lastInvokeEndpoint' = [lastInvokeEndpoint EXCEPT ![p] = endpoint]
            /\ lastResolved' = [lastResolved EXCEPT ![p] = endpoint]
            /\ frame' = [frame EXCEPT ![t].endpoint = endpoint]
       ELSE /\ frame' = [frame EXCEPT ![t].endpoint = lastInvokeEndpoint[p]]
            /\ UNCHANGED <<lastInvokeEndpoint, lastResolved>>
    /\ pc' = [pc EXCEPT ![t] = "ret"]
    /\ UNCHANGED <<extVars, ConfigGlobal, proc, adminVars, endpoints, lock, funcStore, fcFunctions,
                   fcTriggers, hist, returned, provisioned, putBy, gateVars>>

\* What Img2Img and NoRouterHandler do with the outcome (endPoint, err) of the
\* resolution: if err != nil they answer 500 and return, otherwise they go on to
\* send the request to endPoint.
HandlerAnswer(endPoint, err) == IF err THEN "error" ELSE "forward"

\* The rest of the handler (the error answer, or the downstream call and its
\* answer) and the first deferred call to run, DoneTask: waitingCount--.
\* A panic out of GetEndpoint unwinds through the same defers.
DoneTask(t) ==
    LET p == proc[t]
        sdModel == frame[t].sdModel IN
    /\ pc[t] \in {"ret", "panic"}
    /\ gate[t].handler # "none"
    /\ waitingCount' = [waitingCount EXCEPT ![p][sdModel] = @ - 1]
    /\ gate' = [gate EXCEPT ![t].doneTask = @ + 1,
                            ![t].answer = IF pc[t] = "panic" THEN "panic"
                                          ELSE HandlerAnswer(frame[t].endpoint,
                                                             frame[t].err)]
    /\ pc' = [pc EXCEPT ![t] = IF gate[t].owner THEN "decColdNum" ELSE "end"]
    /\ UNCHANGED <<extVars, ConfigGlobal, proc, adminVars, resolverVars, inFlightCount>>

\* A DecColdNum that decrements inFlightCount and wakes nobody.
DecColdNumNoRelease(t) ==
    LET p == proc[t]
        sdModel == frame[t].sdModel IN
    /\ pc[t] = "decColdNum"
    /\ inFlightCount' = [inFlightCount EXCEPT ![p][sdModel] = @ - 1]
    /\ gate' = [gate EXCEPT ![t].decColdNum = @ + 1]
    /\ pc' = [pc EXCEPT ![t] = "end"]
    /\ UNCHANGED <<extVars, ConfigGlobal, proc, adminVars, resolverVars, waitingCount>>

\* The owner's deferred DecColdNum: inFlightCount--, and the calls waiting behind
\* this model's cold start are released.
DecColdNum(t) ==
    LET p == proc[t]
        sdModel == frame[t].sdModel IN
    /\ pc[t] = "decColdNum"
    /\ inFlightCount' = [inFlightCount EXCEPT ![p][sdModel] = @ - 1]
    /\ gate' = [w \in Threads |->
                  IF w = t
                  THEN [gate[w] EXCEPT !.decColdNum = @ + 1]
                  ELSE
                  IF /\ proc[w] = p
                     /\ pc[w] = "gateWait"
                     /\ frame[w].sdModel = sdModel
                     /\ gate[w].blockedOn = "inflight"
                  THEN [gate[w] EXCEPT !.blockedOn = "released"]
                  ELSE gate[w]]
    /\ pc' = [pc EXCEPT ![t] = "end"]
    /\ UNCHANGED <<extVars, ConfigGlobal, proc, adminVars, resolverVars, waitingCount>>

\* One control process; COLD_START_CONCURRENCY is set in the environment and
\* FC_SERVICE_NAME, which InitConfig requires, is set.
InitGate ==
    /\ ConfigGlobal \in [FlexMode : {"singleFunc", "multiFunc"},
                         ServiceName : {"svc"},
                         ColdStartConcurrency : 1 .. MaxCeiling]
    /\ proc = [t \in Threads |-> "A"]
    /\ InitResolver

NextGate ==
    \E t \in Threads :
        \/ WaitToValid(t)
        \/ Admit(t)
        \/ Released(t)
        \/ GetLastInvokeEndpoint(t)
        \/ Resolve(t)
        \/ DoneTask(t)
        \/ DecColdNum(t)

SpecGate == InitGate /\ [][NextGate]_vars

\* A call woken by the readiness signal is scheduled eventually.
SpecGateFair == SpecGate /\ \A t \in Threads : WF_vars(Released(t))

\* ------------------------------------------- resource-mutation operations

\* Everything the resolver and the gate own, which no administrative operation
\* but the reload touches.
requestVars == <<ConfigGlobal, proc, lock, funcStore, fcFunctions, fcTriggers, pc,
                 frame, hist, returned, lastResolved, provisioned, putBy, gateVars>>

\* The bindings a store can hold: each key has no row or its function's URL.
StoreStates ==
    {rows \in [Keys -> Endpoints \cup {NoEndpoint}] :
        \A k \in Keys : rows[k] \in {NoEndpoint, UrlInternet(GetFunctionName(k))}}

\* What ListAll returned: the rows of the store, or nothing when it failed
\* (loadFunc drops its error).
ListAll(listOk) == IF listOk THEN funcStore ELSE [k \in Keys |-> NoEndpoint]

\* first can be the key of the first row of the list.
IsFirstRow(rows, first) ==
    rows[first] # NoEndpoint \/ \A k \in Keys : rows[k] = NoEndpoint

\* loadFunc: f.endpoints[key] = {endpoint, sdModel} for every row.
loadFuncEndpoints(cache, rows) ==
    [k \in Keys |-> IF rows[k] # NoEndpoint THEN rows[k] ELSE cache[k]]

\* A loadFunc that leaves lastInvokeEndpoint alone.
loadFuncLastInvokeKeep(last, rows, first) == last

\* loadFunc: if f.lastInvokeEndpoint == "" { f.lastInvokeEndpoint = endpoint },
\* which the first row decides.
loadFuncLastInvoke(last, rows, first) ==
    IF last = NoEndpoint THEN rows[first] ELSE last

\* A batch loop that stops at the first key the backend rejects.
RemainingAfterAbort(pending, key, failed) ==
    IF failed THEN {} ELSE pending \ {key}

\* UpdateFunctionResource's loop goes on to the next key whatever the outcome.
RemainingAfter(pending, key, failed) == pending \ {key}

\* An UpdateAllFunctionEnv loop that ignores the error of UpdateFunctionEnv.
EnvRemainingAfterIgnore(pending, key, err) == pending \ {key}

\* UpdateAllFunctionEnv's loop: if err != nil { return err }
EnvRemainingAfter(pending, key, err) ==
    IF err # NoError THEN {} ELSE pending \ {key}

\* utils.TimestampS() advances.
Tick ==
    /\ clock < MaxClock
    /\ clock' = clock + 1
    /\ UNCHANGED <<extVars, requestVars, endpoints, lastInvokeEndpoint, fcConfig, admin>>

\* UpdateFunctionResource(resources) is entered with a spec for each key of keys.
UpdateFunctionResource(keys, resource) ==
    /\ admin.pc \in {"idle", "ret"}
    /\ admin' = [NoAdmin EXCEPT !.op = "resource",
                                !.pc = IF keys = {} THEN "ret" ELSE "loop",
                                !.input = keys, !.pending = keys,
                                !.resource = resource]
    /\ UNCHANGED <<extVars, requestVars, endpoints, lastInvokeEndpoint, fcConfig, clock>>

\* One iteration of `for key, resource := range resources`, in the order the map
\* yields: UpdateFunction(functionName, ...) and the append to success, or to
\* fail and errs.  The backend rejects a function it does not have and may
\* reject any call.
UpdateFunctionResourceKey ==
    /\ admin.op = "resource"
    /\ admin.pc = "loop"
    /\ \E key \in admin.pending :
         LET functionName == GetFunctionName(key) IN
         \E accepted \in BOOLEAN :
           LET rest == RemainingAfter(admin.pending, key, ~accepted) IN
           /\ accepted => functionName \in fcFunctions
           /\ fcConfig' = IF accepted
                          THEN [fcConfig EXCEPT ![functionName].resource = admin.resource]
                          ELSE fcConfig
           /\ admin' = [admin EXCEPT
                  !.issued = Append(@, functionName),
                  !.api = Dispatch(ConfigGlobal),
                  !.success = IF accepted THEN Append(@, key) ELSE @,
                  !.fail = IF accepted THEN @ ELSE Append(@, functionName),
                  !.errs = IF accepted THEN @ ELSE Append(@, UpdateError(functionName)),
                  !.pending = rest,
                  !.pc = IF rest = {} THEN "ret" ELSE "loop"]
    /\ UNCHANGED <<extVars, requestVars, endpoints, lastInvokeEndpoint, clock>>

\* One UpdateFunctionEnv(key) call, its result err and whether it pushed an
\* update: GetFuncResource is nil when the function does not exist or GetFunction
\* failed, and then nothing is pushed and nil is returned; otherwise the refresh
\* signal is stamped with the current time and UpdateFunction is called, whose
\* error is returned.
UpdateFunctionEnv(key, err, pushed) ==
    LET functionName == GetFunctionName(key) IN
    \/ /\ ~pushed
       /\ err = NoError
       /\ UNCHANGED fcConfig
    \/ /\ functionName \in fcFunctions
       /\ pushed
       /\ \/ /\ err = NoError
             /\ fcConfig' = [fcConfig EXCEPT ![functionName].refresh = clock]
          \/ /\ err = UpdateError(functionName)
             /\ UNCHANGED fcConfig

\* What a call of UpdateFunctionEnv(key) did.
EnvCall(key, err, pushed) ==
    [key |-> key, name |-> GetFunctionName(key),
     existed |-> GetFunctionName(key) \in fcFunctions,
     pushed |-> pushed, err |-> err, stamp |-> clock]

\* UpdateAllFunctionEnv is entered: f.lock.Lock(); f.loadFunc(); f.lock.Unlock(),
\* then the loop over the keys of f.endpoints starts.
UpdateAllFunctionEnv ==
    /\ admin.pc \in {"idle", "ret"}
    /\ lock["A"] = 0
    /\ \E listOk \in BOOLEAN, first \in Keys :
         LET rows == ListAll(listOk)
             cache == loadFuncEndpoints(endpoints["A"], rows)
             known == {k \in Keys : cache[k] # NoEndpoint} IN
         /\ IsFirstRow(rows, first)
         /\ endpoints' = [endpoints EXCEPT !["A"] = cache]
         /\ lastInvokeEndpoint' = [lastInvokeEndpoint EXCEPT
                                     !["A"] = loadFuncLastInvoke(@, rows, first)]
         /\ admin' = [NoAdmin EXCEPT !.op = "allEnv",
                                     !.pc = IF known = {} THEN "ret" ELSE "loop",
                                     !.input = known, !.pending = known,
                                     !.access = "write", !.held = "exclusive"]
    /\ UNCHANGED <<extVars, requestVars, fcConfig, clock>>

\* One iteration of `for key := range f.endpoints`: UpdateFunctionEnv(key), and
\* the return of its error.  The map is read after f.lock.Unlock(), with no lock
\* held.
UpdateAllFunctionEnvKey ==
    /\ admin.op = "allEnv"
    /\ admin.pc = "loop"
    /\ \E key \in admin.pending :
       \E err \in {NoError, UpdateError(GetFunctionName(key))}, pushed \in BOOLEAN :
         LET rest == EnvRemainingAfter(admin.pending, key, err) IN
         /\ UpdateFunctionEnv(key, err, pushed)
         /\ admin' = [admin EXCEPT !.calls = Append(@, EnvCall(key, err, pushed)),
                                   !.pending = rest,
                                   !.err = err,
                                   !.pc = IF rest = {} THEN "ret" ELSE "loop",
                                   !.access = "read", !.held = "none",
                                   !.api = Dispatch(ConfigGlobal)]
    /\ UNCHANGED <<extVars, requestVars, endpoints, lastInvokeEndpoint, clock>>

\* UpdateModel calls UpdateFunctionEnv(request.Name) for one model.
UpdateModel(key) ==
    /\ admin.pc \in {"idle", "ret"}
    /\ \E err \in {NoError, UpdateError(GetFunctionName(key))}, pushed \in BOOLEAN :
         /\ UpdateFunctionEnv(key, err, pushed)
         /\ admin' = [NoAdmin EXCEPT !.op = "env", !.pc = "ret", !.input = {key},
                                     !.calls = <<EnvCall(key, err, pushed)>>,
                                     !.err = err,
                                     !.api = Dispatch(ConfigGlobal)]
    /\ UNCHANGED <<extVars, requestVars, endpoints, lastInvokeEndpoint, clock>>

\* A control process that started on a store and a backend holding anything:
\* InitFuncManager has loaded the rows ListAll gave it into the cache.
InitLoaded ==
    /\ proc = [t \in Threads |-> "A"]
    /\ funcStore \in StoreStates
    /\ fcFunctions \in SUBSET FunctionNames
    /\ fcTriggers = fcFunctions
    /\ \E listOk \in BOOLEAN, first \in Keys :
         LET rows == ListAll(listOk) IN
         /\ IsFirstRow(rows, first)
         /\ endpoints = [p \in Procs |->
                           loadFuncEndpoints([k \in Keys |-> NoEndpoint], rows)]
         /\ lastInvokeEndpoint = [p \in Procs |->
                           loadFuncLastInvoke(NoEndpoint, rows, first)]
    /\ InitRequests

InitAdmin ==
    /\ ConfigGlobal \in [FlexMode : {"multiFunc"},
                         ServiceName : {"", "svc"},
                         ColdStartConcurrency : {ColdStartConcurrency}]
    /\ InitLoaded

NextAdmin ==
    \/ Tick
    \/ \E keys \in SUBSET Keys, resource \in Resources :
          UpdateFunctionResource(keys, resource)
    \/ UpdateFunctionResourceKey
    \/ UpdateAllFunctionEnv
    \/ UpdateAllFunctionEnvKey
    \/ \E key \in Keys : UpdateModel(key)

SpecAdmin == InitAdmin /\ [][NextAdmin]_vars

\* ------------------------------------------- GetLastInvokeEndpoint callers

\* The arguments GetLastInvokeEndpoint is called with: none, or a model key.
LastInvokeArgs == {"", "m1", "default"}

\* A thread calls GetLastInvokeEndpoint.
CallGetLastInvokeEndpoint(t) ==
    /\ pc[t] = "idle"
    /\ \E sdModel \in LastInvokeArgs : EnterGetLastInvokeEndpoint(t, sdModel)
    /\ UNCHANGED <<extVars, ConfigGlobal, proc, adminVars, endpoints, lastInvokeEndpoint, lock,
                   funcStore, fcFunctions, fcTriggers, returned, lastResolved,
                   provisioned, putBy, gateVars>>

\* A control process that started on a store holding any bindings, each with its
\* function and trigger in the backend.
InitLast ==
    /\ ConfigGlobal \in [FlexMode : {"singleFunc", "multiFunc"},
                         ServiceName : {"svc"},
                         ColdStartConcurrency : {ColdStartConcurrency}]
    /\ InitLoaded
    /\ fcFunctions = {GetFunctionName(k) : k \in {j \in Keys : funcStore[j] # NoEndpoint}}

NextLast ==
    \E t \in Threads :
        \/ GetEndpoint(t)
        \/ Resolve(t)
        \/ CallGetLastInvokeEndpoint(t)
        \/ GetLastInvokeEndpoint(t)

SpecLast == InitLast /\ [][NextLast]_vars

\* ------------------------------------------- a function's configuration changes

\* Requests resolve endpoints, creating functions, while the operator updates
\* the environment and the resources of functions and reloads the cache, all
\* within one second.
InitLife ==
    /\ ConfigGlobal \in [FlexMode : {"singleFunc", "multiFunc"},
                         ServiceName : {"svc"},
                         ColdStartConcurrency : {ColdStartConcurrency}]
    /\ \E last \in Procs :
          proc = [t \in Threads |-> IF t = NumThreads THEN last ELSE "A"]
    /\ InitResolver

NextLife ==
    \/ \E t \in Threads : GetEndpoint(t) \/ Resolve(t)
    \/ \E t \in Threads : CallGetLastInvokeEndpoint(t) \/ GetLastInvokeEndpoint(t)
    \/ \E key \in Keys : UpdateModel(key)
    \/ \E keys \in SUBSET Keys : UpdateFunctionResource(keys, "r1")
    \/ UpdateFunctionResourceKey
    \/ UpdateAllFunctionEnv
    \/ UpdateAllFunctionEnvKey

SpecLife == InitLife /\ [][NextLife]_vars

\* ------------------------------------------------ calls of the backend's API

\* One control process, started with or without a service name: requests create
\* functions while the operator updates the environment and the resources of
\* functions.
InitBackend ==
    /\ ConfigGlobal \in [FlexMode : {"multiFunc"},
                         ServiceName : {"", "svc"},
                         ColdStartConcurrency : {ColdStartConcurrency}]
    /\ proc = [t \in Threads |-> "A"]
    /\ InitResolver

NextBackend ==
    \/ \E t \in Threads : GetEndpoint(t) \/ Resolve(t)
    \/ \E key \in Keys : UpdateModel(key)
    \/ \E keys \in SUBSET Keys : UpdateFunctionResource(keys, "r1")
    \/ UpdateFunctionResourceKey

SpecBackend == InitBackend /\ [][NextBackend]_vars

\* ---------------------------------------------------------------- start-up

DefaultFlexMode == "multiFunc"

PROXY == "proxy"

\* What a process can be started with: the yaml file (missing, malformed, or
\* readable with its flexMode, serverName and downstream entries) and the
\* environment variables InitConfig and updateFromEnv read.
Environments ==
    [file : {"missing", "malformed", "ok"},
     flexMode : {"", "singleFunc"},
     serverName : {"", PROXY},
     downstream : {"", "url"},
     ACCOUNT_ID : {"", "id"},
     ACCESS_KEY_ID : {"", "ak"},
     ACCESS_KEY_SECRET : {"", "sk"},
     REGION : {"", "cn"},
     SERVICE_NAME : {"", "svc"},
     FLEX_MODE : {"", "singleFunc", "multiFunc"},
     SERVER_NAME : {"", PROXY, "agent"},
     DOWNSTREAM : {"", "url"}]

\* The values InitConfig checks to be set.
RequiredEnv(e) ==
    <<e.ACCOUNT_ID, e.ACCESS_KEY_ID, e.ACCESS_KEY_SECRET, e.REGION, e.SERVICE_NAME>>

\* Config.setDefaults, for the flex mode.
setDefaults(flexMode) == IF flexMode = "" THEN DefaultFlexMode ELSE flexMode

\* Config.updateFromEnv: a variable that is set covers the yaml entry.
updateFromEnv(yamlValue, envValue) == IF envValue # "" THEN envValue ELSE yamlValue

\* The ConfigGlobal InitConfig builds once the environment has passed its check.
BuiltConfig(e) ==
    [FlexMode |-> updateFromEnv(setDefaults(e.flexMode), e.FLEX_MODE),
     ServiceName |-> e.SERVICE_NAME,
     ColdStartConcurrency |-> ColdStartConcurrency,
     ServerName |-> updateFromEnv(e.serverName, e.SERVER_NAME),
     Downstream |-> updateFromEnv(e.downstream, e.DOWNSTREAM)]

\* The error InitConfig returns, "nil" for none.
InitConfigErr(e) ==
    IF e.file = "missing" THEN "read file"
    ELSE IF e.file = "malformed" THEN "unmarshal"
    ELSE IF \E i \in 1..Len(RequiredEnv(e)) : RequiredEnv(e)[i] = ""
        THEN "env not set"
    ELSE IF /\ GetFlexMode(BuiltConfig(e)) = MultiFunc
            /\ BuiltConfig(e).ServerName = PROXY
            /\ BuiltConfig(e).Downstream = ""
        THEN "proxy need set downstream"
    ELSE "nil"

\* ConfigGlobal before InitConfig assigns it.
NilConfig == [FlexMode |-> "", ServiceName |-> "", ColdStartConcurrency |-> 0,
              ServerName |-> "", Downstream |-> ""]

\* InitConfig in a process started with environment e: ConfigGlobal is assigned
\* once the yaml is read and the required variables are set, the downstream
\* check comes after the assignment.
InitConfig(e) ==
    /\ initErr = "unset"
    /\ environ' = e
    /\ initErr' = InitConfigErr(e)
    /\ ConfigGlobal' = IF InitConfigErr(e) \in {"nil", "proxy need set downstream"}
                           THEN BuiltConfig(e)
                           ELSE ConfigGlobal
    /\ UNCHANGED <<proc, resolverVars, pc, gateVars, adminVars, lastModifyTime, readers,
                   taskVars>>

InitStartup ==
    /\ ConfigGlobal = NilConfig
    /\ proc = [t \in Threads |-> "A"]
    /\ InitResolver

NextStartup == \E e \in Environments : InitConfig(e)

SpecStartup == InitStartup /\ [][NextStartup]_vars

\* --------------------------------------------------- f.lock, a sync.RWMutex

\* RLock returns when no writer holds the lock and none has called Lock and
\* waits: sync.RWMutex makes a pending Lock bar new readers.
RLockReturns(p) ==
    /\ lock[p] = 0
    /\ \A u \in Threads : ~(proc[u] = p /\ pc[u] = "lock")

\* Lock returns when, besides, no read lock is held.
NoReaders(p) == \A u \in Threads : readers[p][u] = 0

\* A thread calls GetLastInvokeEndpoint(&sdModel) with a model key: it calls
\* f.lock.RLock().
CallGetLastInvokeEndpointKey(t) ==
    /\ pc[t] = "idle"
    /\ \E sdModel \in Keys :
          /\ frame' = [frame EXCEPT ![t] = [NoFrame EXCEPT !.sdModel = sdModel,
                                                           !.key = sdModel]]
          /\ hist' = [hist EXCEPT ![t] = [NoHist EXCEPT !.how = "lastInvoke"]]
    /\ pc' = [pc EXCEPT ![t] = "rlockOuter"]
    /\ UNCHANGED <<extVars, ConfigGlobal, proc, adminVars, endpoints, lastInvokeEndpoint,
                   lock, funcStore, fcFunctions, fcTriggers, returned, lastResolved,
                   provisioned, putBy, gateVars>>

\* A step of the locking of GetLastInvokeEndpoint and the getEndpointFromCache
\* it calls, that takes a read lock or gives one back.
ReadLockStep(t, from, to, take) ==
    /\ pc[t] = from
    /\ take => RLockReturns(proc[t])
    /\ readers' = [readers EXCEPT ![proc[t]][t] = IF take THEN @ + 1 ELSE @ - 1]
    /\ pc' = [pc EXCEPT ![t] = to]

\* The outer f.lock.RLock() of GetLastInvokeEndpoint returns; the key is not
\* empty, so getEndpointFromCache is called, which calls f.lock.RLock() again.
OuterRLock(t) ==
    /\ ReadLockStep(t, "rlockOuter", "rlockInner", TRUE)
    /\ UNCHANGED <<environ, initErr, lastModifyTime, taskVars, ConfigGlobal, proc, adminVars,
                   resolverVars, gateVars>>

\* The RLock inside getEndpointFromCache returns.
InnerRLock(t) ==
    /\ ReadLockStep(t, "rlockInner", "cacheRead", TRUE)
    /\ UNCHANGED <<environ, initErr, lastModifyTime, taskVars, ConfigGlobal, proc, adminVars,
                   resolverVars, gateVars>>

\* getEndpointFromCache reads the cache and returns through its deferred RUnlock.
InnerRUnlock(t) ==
    /\ ReadLockStep(t, "cacheRead", "lastInvokeWrite", FALSE)
    /\ frame' = [frame EXCEPT ![t].endpoint =
                     getEndpointFromCache(endpoints[proc[t]], frame[t].key)]
    /\ UNCHANGED <<environ, initErr, lastModifyTime, taskVars, ConfigGlobal, proc, adminVars,
                   endpoints, lastInvokeEndpoint, lock, funcStore, fcFunctions,
                   fcTriggers, hist, returned, lastResolved, provisioned, putBy,
                   gateVars>>

\* GetLastInvokeEndpoint records a hit in f.lastInvokeEndpoint, or falls back to
\* it, and returns through its deferred RUnlock.
OuterRUnlock(t) ==
    LET p == proc[t]
        endpoint == frame[t].endpoint IN
    /\ ReadLockStep(t, "lastInvokeWrite", "ret", FALSE)
    /\ IF endpoint # NoEndpoint
       THEN /\ lastInvokeEndpoint' = [lastInvokeEndpoint EXCEPT ![p] = endpoint]
            /\ lastResolved' = [lastResolved EXCEPT ![p] = endpoint]
            /\ UNCHANGED frame
       ELSE /\ frame' = [frame EXCEPT ![t].endpoint = lastInvokeEndpoint[p]]
            /\ UNCHANGED <<lastInvokeEndpoint, lastResolved>>
    /\ UNCHANGED <<environ, initErr, lastModifyTime, taskVars, ConfigGlobal, proc, adminVars,
                   endpoints, lock, funcStore, fcFunctions, fcTriggers, hist,
                   returned, provisioned, putBy, gateVars>>

\* A step of a thread inside a call, with f.lock a sync.RWMutex: the read lock
\* of GetEndpoint's cache lookup waits for a pending writer, its Lock for the
\* read locks to be given back.
StepRW(t) ==
    \/ OuterRLock(t)
    \/ InnerRLock(t)
    \/ InnerRUnlock(t)
    \/ OuterRUnlock(t)
    \/ RLockReturns(proc[t]) /\ CacheLookup(t)
    \/ Exhausted(t)
    \/ NoReaders(proc[t]) /\ AcquireLock(t)
    \/ DbLookup(t)
    \/ CreateFunction(t)
    \/ CreateTrigger(t)
    \/ PutFunc(t)

NextRW ==
    \E t \in Threads :
        \/ GetEndpoint(t)
        \/ CallGetLastInvokeEndpointKey(t)
        \/ StepRW(t)

SpecRW == Init /\ [][NextRW]_vars

\* -------------------------------------------------------------------- tasks

TASK_INPROGRESS == "running"

TASK_FAILED == "failed"

TASK_QUEUE == "waiting"

TASK_FINISH == "succeeded"

\* The status code of an inference call, by whether it is requestOk.
StatusCodes == {"requestOk", "notOk"}

\* The Progress values a stored progress document carries: taskProgress stores
\* a document only while Progress > 0.
StoredProgress == {"0.5", "1"}

\* Everything the handlers leave alone when they work on the task row.
serviceVars == <<ConfigGlobal, proc, resolverVars, pc, gateVars, adminVars,
                 environ, initErr, lastModifyTime, readers>>

\* taskStore.Put of the proxy handlers: the row is written with status waiting;
\* whether the other columns of an earlier row with the same id survive is up to
\* the store.
PutTask(putOk, replaces) ==
    IF ~putOk THEN task
    ELSE IF replaces \/ ~task.exists
         THEN [NoTask EXCEPT !.exists = TRUE, !.status = TASK_QUEUE]
         ELSE [task EXCEPT !.status = TASK_QUEUE]

\* Txt2Img, Img2Img, ExtraImages or NoRouterHandler in proxy role registers the
\* task.
SubmitTask ==
    /\ \E putOk, replaces \in BOOLEAN : task' = PutTask(putOk, replaces)
    /\ UNCHANGED <<serviceVars, reply>>

\* The agent marks the task as running; the error of Update is dropped.
AgentStart ==
    /\ task.exists
    /\ \E updateOk \in BOOLEAN :
          task' = IF updateOk THEN [task EXCEPT !.status = TASK_INPROGRESS] ELSE task
    /\ UNCHANGED <<serviceVars, reply>>

\* AgentHandler.predictTask: the row after the call.  reached: the call was
\* answered and the answer parsed; with requestOk the images are uploaded first
\* and a failed upload returns; then the code is stored and the status set to
\* succeeded, whatever the code.
AgentPredictTask(row, code, reached, uploadOk, updateOk) ==
    IF ~reached \/ (code = "requestOk" /\ ~uploadOk) \/ ~updateOk THEN row
    ELSE [row EXCEPT !.code = code, !.status = TASK_FINISH]

\* ProxyHandler.predictTask: the row after the call.  A null result is stored as
\* failed with the code; otherwise the status is succeeded for requestOk (after
\* the upload) and failed for any other code.
ProxyPredictTask(row, code, reached, resultNil, uploadOk, updateOk) ==
    IF ~reached \/ ~updateOk THEN row
    ELSE IF resultNil THEN [row EXCEPT !.code = code, !.status = TASK_FAILED]
    ELSE IF code = "requestOk" /\ ~uploadOk THEN row
    ELSE [row EXCEPT !.code = code,
                     !.status = IF code = "requestOk" THEN TASK_FINISH ELSE TASK_FAILED]

\* An inference call for the task, by the proxy's or the agent's predictTask.
PredictTask ==
    /\ task.exists
    /\ \E code \in StatusCodes, reached, resultNil, uploadOk, updateOk \in BOOLEAN :
          \/ task' = ProxyPredictTask(task, code, reached, resultNil, uploadOk, updateOk)
          \/ /\ ~resultNil
             /\ task' = AgentPredictTask(task, code, reached, uploadOk, updateOk)
    /\ UNCHANGED <<serviceVars, reply>>

\* AgentHandler.taskProgress stores the progress document of the running
\* inference.
TaskProgress ==
    /\ task.exists
    /\ \E progress \in StoredProgress : task' = [task EXCEPT !.progress = progress]
    /\ UNCHANGED <<serviceVars, reply>>

\* A GetTaskProgress that reports the stored progress of a task that is not
\* final as it is.
ReportedProgressUnclamped(row) ==
    IF row.status \in {TASK_FINISH, TASK_FAILED} THEN "1"
    ELSE IF row.progress = "" THEN "0"
    ELSE row.progress

\* GetTaskProgress: resp.Progress is the stored document's (0 without one); if
\* the status is succeeded or failed it is set to 1, else if it is 1 to 0.99.
ReportedProgress(row) ==
    LET stored == IF row.progress = "" THEN "0" ELSE row.progress IN
    IF row.status \in {TASK_FINISH, TASK_FAILED} THEN "1"
    ELSE IF stored = "1" THEN "0.99"
    ELSE stored

\* GET /tasks/{taskId}/progress
GetTaskProgress ==
    /\ \E getOk \in BOOLEAN :
          reply' = IF ~getOk \/ ~task.exists
                   THEN [NoReply EXCEPT !.op = "progress", !.row = task, !.http = "404"]
                   ELSE [NoReply EXCEPT !.op = "progress", !.row = task, !.http = "200",
                                        !.progress = ReportedProgress(task)]
    /\ UNCHANGED <<serviceVars, task>>

\* A getTaskResult that does not look at the stored code.
ResultStatusIgnoringCode(row) == IF row.status # "" THEN row.status ELSE TASK_QUEUE

\* getTaskResult's status for a row whose code is set: the stored status unless it
\* is succeeded; then failed if the code is not requestOk, else succeeded (waiting
\* if the row has no status).
ResultStatus(row) ==
    IF row.status # "" /\ row.status # TASK_FINISH THEN row.status
    ELSE IF row.code # "requestOk" THEN TASK_FAILED
    ELSE IF row.status # "" THEN TASK_FINISH
    ELSE TASK_QUEUE

\* getTaskResult's error: the row is not found, or it passed for succeeded and
\* has no code.
ResultErr(getOk, row) ==
    IF ~getOk \/ ~row.exists THEN "not found"
    ELSE IF row.status \in {"", TASK_FINISH} /\ row.code = "" THEN "predict fail"
    ELSE ""

\* getTaskResult(taskId), from the task-result query.
getTaskResult ==
    /\ \E getOk \in BOOLEAN :
          reply' = IF ResultErr(getOk, task) # ""
                   THEN [NoReply EXCEPT !.op = "result", !.row = task,
                                        !.err = ResultErr(getOk, task)]
                   ELSE [NoReply EXCEPT !.op = "result", !.row = task,
                                        !.status = ResultStatus(task)]
    /\ UNCHANGED <<serviceVars, task>>

InitTask ==
    /\ ConfigGlobal \in [FlexMode : {"singleFunc", "multiFunc"},
                         ServiceName : {"svc"},
                         ColdStartConcurrency : {ColdStartConcurrency}]
    /\ proc = [t \in Threads |-> "A"]
    /\ InitResolver

NextTask ==
    \/ SubmitTask
    \/ AgentStart
    \/ PredictTask
    \/ TaskProgress
    \/ GetTaskProgress
    \/ getTaskResult

SpecTask == InitTask /\ [][NextTask]_vars

\* ------------------------------------------------------------------ claims

\* Positions inside createFunc.
InCreateFunc(t) == pc[t] \in {"createFn", "createTrigger", "putFunc"}

\* Positions of a GetEndpoint call that has gone past the cache lookup.
PastCache(t) == pc[t] \in {"lock", "db", "createFn", "createTrigger", "putFunc", "panic"}

\* C1: a GetEndpoint(k) call started after a call of the same process returned
\* endpoint E for k never goes past the cache lookup, makes no create-function or
\* create-trigger call, and returns E without error.
C1_CacheMonotonicity ==
    \A t \in Threads :
        hist[t].known # NoEndpoint =>
            /\ ~PastCache(t)
            /\ ~hist[t].created
            /\ pc[t] = "ret" => (frame[t].endpoint = hist[t].known /\ ~frame[t].err)

\* C1 witness: a call that started after E was returned for its key has returned E.
C1_Witness ==
    \E t \in Threads :
        /\ hist[t].known # NoEndpoint
        /\ pc[t] = "ret"
        /\ hist[t].how = "cache"
        /\ frame[t].endpoint = hist[t].known

\* C2: a caller that acquires the exclusive lock after a provisioning of its key
\* has succeeded in its process gets the endpoint from the store lookup and never
\* enters createFunc.
C2_SingleCreation ==
    \A t \in Threads : hist[t].afterProv => ~InCreateFunc(t)

\* Requests of process p that own a cold start: WaitToValid returned true (the
\* handler deferred DecColdNum) and DecColdNum has not run yet.
Owners(p) ==
    {t \in Threads : proc[t] = p /\ gate[t].owner /\ pc[t] # "end"}

\* C3: at most one request at a time owns the cold start of a model, and a request
\* that does not own the cold start never provisions (never enters createFunc).
C3_AdmissionCollapse ==
    /\ \A t, u \in Threads :
          (/\ t # u
           /\ proc[t] = proc[u]
           /\ t \in Owners(proc[t])
           /\ u \in Owners(proc[u])) => frame[t].sdModel # frame[u].sdModel
    /\ \A t \in Threads :
          (gate[t].handler # "none" /\ InCreateFunc(t)) => gate[t].owner

\* C4: the cold starts in flight in a process (WaitToValid returned true, DecColdNum
\* not yet called) are exactly what inFlightCount counts, and never more than the
\* configured ceiling.
C4_CeilingEnforcement ==
    \A p \in Procs :
        /\ Cardinality(Owners(p)) = ColdNum(p)
        /\ Cardinality(Owners(p)) <= ConfigGlobal.ColdStartConcurrency

\* C4 witness: the ceiling is reached and a WaitToValid call is blocked by it.
C4_Witness ==
    \E t, u \in Threads :
        /\ proc[t] = proc[u]
        /\ t \in Owners(proc[t])
        /\ Cardinality(Owners(proc[t])) = ConfigGlobal.ColdStartConcurrency
        /\ pc[u] = "gateWait"
        /\ gate[u].blockedOn = "ceiling"

\* C5: when GetEndpoint has returned an endpoint it obtained by provisioning, the
\* cache of its process and the store both hold that endpoint for the key.
C5_CacheStoreAgree ==
    \A t \in Threads :
        (pc[t] = "ret" /\ hist[t].how = "create") =>
            /\ endpoints[proc[t]][frame[t].key] = frame[t].endpoint
            /\ funcStore[frame[t].key] = frame[t].endpoint

\* C6: a GetEndpoint(k) call started after another process persisted k -> E makes
\* no create-function or create-trigger call and returns E without error.
C6_CrossProcess ==
    \A t \in Threads :
        hist[t].persisted # NoEndpoint =>
            /\ ~hist[t].created
            /\ ~InCreateFunc(t)
            /\ pc[t] = "ret" => (frame[t].endpoint = hist[t].persisted /\ ~frame[t].err)

\* C7: a GetEndpoint call makes at most 2 attempts past the cache; a call that
\* returned the error made 2, returns the empty endpoint, and has written neither
\* the cache nor the store; a call that returned no error returns an endpoint.
C7_BoundedRetry ==
    \A t \in Threads :
        /\ hist[t].attempts <= 2
        /\ (pc[t] = "ret" /\ ~frame[t].err) => frame[t].endpoint # NoEndpoint
        /\ (pc[t] = "ret" /\ frame[t].err) =>
              /\ frame[t].endpoint = NoEndpoint
              /\ hist[t].attempts = 2
              /\ hist[t].how = "none"
              /\ ~hist[t].wrote

\* C7 witness: a call has returned the error after two failed attempts, one of
\* which reached the backend.
C7_Witness ==
    \E t \in Threads :
        /\ pc[t] = "ret"
        /\ frame[t].err
        /\ hist[t].failed
        /\ hist[t].created
        /\ hist[t].attempts = 2

\* C8: when a provisioning attempt of a call failed and a later attempt of the same
\* call succeeded, the store holds the binding of the key to the returned endpoint
\* and the cache holds the same endpoint.
C8_IdempotentRetry ==
    \A t \in Threads :
        (pc[t] = "ret" /\ hist[t].how = "create" /\ hist[t].failed) =>
            /\ funcStore[frame[t].key] # NoEndpoint
            /\ funcStore[frame[t].key] = endpoints[proc[t]][frame[t].key]
            /\ endpoints[proc[t]][frame[t].key] = frame[t].endpoint

\* C9: no outcome of the backend calls makes createFunc panic.
C9_NoPanic ==
    \A t \in Threads : pc[t] # "panic"

\* C10: a GetEndpoint call that has ended, on any path, does not hold the lock.
C10_LockReleased ==
    \A t \in Threads :
        pc[t] \in {"idle", "ret", "panic", "decColdNum", "end"} => lock[proc[t]] # t

\* C11: for a request that called WaitToValid in Img2Img or NoRouterHandler, DoneTask
\* and DecColdNum are never called more than once, DecColdNum is called only if
\* WaitToValid returned true, and when the handler has exited (by return, after an
\* error of GetEndpoint, or by a panic) DoneTask has been called exactly once and
\* DecColdNum exactly once if WaitToValid returned true, never otherwise.
C11_GateProtocol ==
    \A t \in Threads :
        gate[t].handler # "none" =>
            /\ gate[t].doneTask <= 1
            /\ gate[t].decColdNum <= 1
            /\ gate[t].decColdNum = 1 => gate[t].waitToValid
            /\ pc[t] = "end" =>
                  /\ gate[t].doneTask = 1
                  /\ gate[t].decColdNum = (IF gate[t].waitToValid THEN 1 ELSE 0)

\* C11 witness: an owner whose GetEndpoint returned the error and a request that
\* WaitToValid answered false have both exited.
C11_Witness ==
    \E t, u \in Threads :
        /\ pc[t] = "end" /\ gate[t].waitToValid /\ frame[t].err
        /\ gate[t].doneTask = 1 /\ gate[t].decColdNum = 1
        /\ pc[u] = "end" /\ gate[u].handler # "none" /\ ~gate[u].waitToValid
        /\ gate[u].doneTask = 1 /\ gate[u].decColdNum = 0

\* C12: the key a GetEndpoint call resolves is "default" in single-function mode
\* whatever model key it was given, "default" for the empty model key in
\* multi-function mode, and the model key itself in multi-function mode otherwise;
\* the endpoint it returns is the one cached under that key.
C12_KeyDerivation ==
    \A t \in Threads :
        pc[t] # "idle" =>
            /\ frame[t].key =
                  (IF ConfigGlobal.FlexMode = "singleFunc" THEN "default"
                   ELSE IF frame[t].sdModel = "" THEN "default"
                   ELSE frame[t].sdModel)
            /\ (pc[t] = "ret" /\ ~frame[t].err) =>
                  endpoints[proc[t]][frame[t].key] = frame[t].endpoint

\* C12 witness: in single-function mode a call given a model key has provisioned
\* and returned the endpoint of "default".
C12_Witness ==
    \E t \in Threads :
        /\ ConfigGlobal.FlexMode = "singleFunc"
        /\ frame[t].sdModel = "m1"
        /\ frame[t].key = "default"
        /\ pc[t] = "ret"
        /\ hist[t].how = "create"
        /\ endpoints[proc[t]]["default"] = frame[t].endpoint

\* C13: when UpdateFunctionResource has returned, every key of its input is in
\* exactly one of the succeeded and failed lists, under its key; the failed list
\* and the message list have the same length and the i-th message is the backend's
\* error for the i-th failed key.
C13_BatchResultLists ==
    (admin.op = "resource" /\ admin.pc = "ret") =>
        /\ \A k \in admin.input :
              (k \in Range(admin.success)) # (k \in Range(admin.fail))
        /\ Len(admin.success) + Len(admin.fail) = Cardinality(admin.input)
        /\ Len(admin.errs) = Len(admin.fail)
        /\ \A i \in 1 .. Len(admin.fail) :
              admin.errs[i] = UpdateError(GetFunctionName(admin.fail[i]))

\* C14: UpdateFunctionResource issues one backend update for every key it has
\* gone through and, when it has returned, for every key of its input, whatever
\* the outcome for the other keys; the function of every key whose update was
\* accepted runs with the requested spec, during and after the batch.
C14_BatchIndependence ==
    admin.op = "resource" =>
        /\ \A k \in admin.input \ admin.pending :
              GetFunctionName(k) \in Range(admin.issued)
        /\ admin.pc = "ret" =>
              /\ admin.pending = {}
              /\ Len(admin.issued) = Cardinality(admin.input)
        /\ \A i \in 1 .. Len(admin.success) :
              fcConfig[GetFunctionName(admin.success[i])].resource = admin.resource

\* C14 witness: a batch of two keys has returned; the update issued first was
\* rejected and the other key's update was accepted and applied.
C14_Witness ==
    /\ admin.op = "resource"
    /\ admin.pc = "ret"
    /\ Len(admin.issued) = 2
    /\ Len(admin.fail) = 1
    /\ admin.issued[1] = admin.fail[1]
    /\ Len(admin.success) = 1
    /\ fcConfig[GetFunctionName(admin.success[1])].resource = admin.resource

\* C15: in UpdateAllFunctionEnv an UpdateFunctionEnv call that returned an error
\* is the last call made and its error is what UpdateAllFunctionEnv returns; when
\* UpdateAllFunctionEnv returns no error, UpdateFunctionEnv was called once for
\* every key of the cache and every call returned no error.
C15_StopsAtFirstFailure ==
    admin.op = "allEnv" =>
        /\ \A i \in 1 .. Len(admin.calls) :
              admin.calls[i].err # NoError =>
                  /\ i = Len(admin.calls)
                  /\ admin.pc = "ret"
                  /\ admin.err = admin.calls[i].err
        /\ (admin.pc = "ret" /\ admin.err = NoError) =>
              /\ \A i \in 1 .. Len(admin.calls) : admin.calls[i].err = NoError
              /\ {admin.calls[i].key : i \in 1 .. Len(admin.calls)} = admin.input
              /\ Len(admin.calls) = Cardinality(admin.input)

\* C15 witness: UpdateAllFunctionEnv has returned the error of its first call and
\* a key of the cache was never passed to UpdateFunctionEnv.
C15_Witness ==
    /\ admin.op = "allEnv"
    /\ admin.pc = "ret"
    /\ admin.err # NoError
    /\ Len(admin.calls) = 1
    /\ \E k \in admin.input : k # admin.calls[1].key

\* C16: an UpdateFunctionEnv call on a function the backend does not have pushed
\* no update and returned no error; a call on a function the backend has pushed
\* one update, stamped with the time of the call, which the function carries if
\* the backend accepted it, and returned the backend's error if it did not.
C16_UpdateFunctionEnv ==
    \A i \in 1 .. Len(admin.calls) :
        LET call == admin.calls[i]
            functionName == GetFunctionName(call.key) IN
        /\ ~call.existed => (~call.pushed /\ call.err = NoError)
        /\ call.existed =>
              /\ call.pushed
              /\ call.err \in {NoError, UpdateError(functionName)}
              /\ (i = Len(admin.calls) /\ call.err = NoError) =>
                    fcConfig[functionName].refresh = call.stamp

\* C17: a GetLastInvokeEndpoint call never goes on to the store lookup or to
\* createFunc, and the step in which it answers leaves the cache, the store and the
\* backend as they were.
C17_LastInvokeReadOnly ==
    /\ [](\A t \in Threads :
            hist[t].how = "lastInvoke" =>
                /\ pc[t] \in {"lastInvoke", "ret"}
                /\ hist[t].attempts = 0
                /\ ~hist[t].created
                /\ ~hist[t].wrote)
    /\ [][\A t \in Threads :
            (pc[t] = "lastInvoke" /\ pc'[t] # "lastInvoke") =>
                /\ endpoints' = endpoints
                /\ funcStore' = funcStore
                /\ putBy' = putBy
                /\ fcFunctions' = fcFunctions
                /\ fcTriggers' = fcTriggers]_vars

\* C17 witness: a GetLastInvokeEndpoint call given a key the cache does not have
\* has returned, the key still not cached, stored or provisioned.
C17_Witness ==
    \E t \in Threads :
        /\ hist[t].how = "lastInvoke"
        /\ pc[t] = "ret"
        /\ frame[t].sdModel = "m1"
        /\ endpoints[proc[t]]["m1"] = NoEndpoint
        /\ funcStore["m1"] = NoEndpoint
        /\ GetFunctionName("m1") \notin fcFunctions

\* C18: a GetLastInvokeEndpoint call given a key the cache has returns that key's
\* endpoint and records it as last used; a call given no key, the empty key or a
\* key the cache does not have returns the endpoint of the most recent successful
\* resolution of its process, when there has been one.
C18_LastInvokeResult ==
    [][\A t \in Threads :
          (pc[t] = "lastInvoke" /\ pc'[t] = "ret") =>
              LET p == proc[t]
                  sdModel == frame[t].sdModel IN
              IF sdModel # "" /\ endpoints[p][sdModel] # NoEndpoint
              THEN /\ frame'[t].endpoint = endpoints[p][sdModel]
                   /\ lastInvokeEndpoint'[p] = endpoints[p][sdModel]
              ELSE lastResolved[p] # NoEndpoint =>
                       frame'[t].endpoint = lastResolved[p]]_vars

\* C18 witness: a call with no key has returned the endpoint a GetEndpoint call of
\* another key resolved from the cache after the process started with two bindings.
C18_Witness ==
    \E t, u \in Threads :
        /\ hist[t].how = "lastInvoke"
        /\ pc[t] = "ret"
        /\ frame[t].sdModel = ""
        /\ pc[u] = "ret"
        /\ hist[u].how = "cache"
        /\ frame[t].endpoint = frame[u].endpoint
        /\ \E k \in Keys : endpoints[proc[t]][k] \notin {NoEndpoint, frame[t].endpoint}

\* C19: a GetLastInvokeEndpoint call with no key, made in a process in which no
\* GetEndpoint or GetLastInvokeEndpoint call has resolved an endpoint, returns the
\* empty string.
C19_EmptyBeforeResolution ==
    [][\A t \in Threads :
          (/\ pc[t] = "lastInvoke"
           /\ pc'[t] = "ret"
           /\ frame[t].sdModel = ""
           /\ lastResolved[proc[t]] = NoEndpoint) =>
              frame'[t].endpoint = NoEndpoint]_vars

\* C19 as amended: such a call returns the empty string exactly when loadFunc
\* loaded no binding into the cache at the start of the process, and otherwise the
\* endpoint of a binding it loaded.
C19_LoadedBeforeResolution ==
    [][\A t \in Threads :
          (/\ pc[t] = "lastInvoke"
           /\ pc'[t] = "ret"
           /\ frame[t].sdModel = ""
           /\ lastResolved[proc[t]] = NoEndpoint) =>
              LET loaded == {endpoints[proc[t]][k] : k \in Keys} \ {NoEndpoint} IN
              IF loaded = {}
              THEN frame'[t].endpoint = NoEndpoint
              ELSE frame'[t].endpoint \in loaded]_vars

\* C19 witness: before any resolution a call with no key has returned the endpoint
\* of a binding the store held when the process started.
C19_Witness ==
    \E t \in Threads :
        /\ hist[t].how = "lastInvoke"
        /\ pc[t] = "ret"
        /\ frame[t].sdModel = ""
        /\ lastResolved[proc[t]] = NoEndpoint
        /\ frame[t].endpoint # NoEndpoint
        /\ \E k \in Keys : funcStore[k] = frame[t].endpoint

\* C20: the store and the caches of all processes hold at most one endpoint for a
\* key, and at most one backend function has been created for a key, whichever
\* threads and processes resolve it.
C20_OneBindingPerKey ==
    \A k \in Keys :
        /\ Cardinality(({funcStore[k]} \cup {endpoints[p][k] : p \in Procs})
                       \ {NoEndpoint}) <= 1
        /\ \A t \in Threads : hist[t].made <= 1
        /\ Cardinality({t \in Threads : frame[t].key = k /\ hist[t].made > 0}) <= 1

\* C20 witness: two processes resolved the same key concurrently; one created the
\* function and returned its endpoint, the other's create-function call was
\* rejected.
C20_Witness ==
    \E t, u \in Threads :
        /\ proc[t] # proc[u]
        /\ frame[t].key = frame[u].key
        /\ hist[t].made = 1
        /\ pc[t] = "ret"
        /\ hist[t].how = "create"
        /\ hist[u].created
        /\ hist[u].failed
        /\ hist[u].made = 0

\* C21: the name under which a backend function is addressed is the prefix "sd_"
\* followed by the hash of the model key and nothing else: the create-function
\* calls of any two threads, of one process or of two, for the same key carry the
\* same name, and the resource updates and the environment updates of a key are
\* issued to that name.
C21_FunctionNaming ==
    /\ \A t \in Threads :
          hist[t].name # "" => hist[t].name = "sd_" \o Hash(frame[t].key)
    /\ \A t, u \in Threads :
          (/\ frame[t].key = frame[u].key
           /\ hist[t].name # ""
           /\ hist[u].name # "") => hist[t].name = hist[u].name
    /\ admin.op = "resource" =>
          Range(admin.issued) = {"sd_" \o Hash(k) : k \in admin.input \ admin.pending}
    /\ \A i \in 1 .. Len(admin.calls) :
          admin.calls[i].name = "sd_" \o Hash(admin.calls[i].key)

\* C21 witness: two processes sent create-function calls for the same key, given
\* different models, under one name; the function created under it has had a
\* resource update accepted and an environment update pushed under that name.
C21_Witness ==
    \E t, u \in Threads :
        /\ proc[t] # proc[u]
        /\ frame[t].sdModel # frame[u].sdModel
        /\ hist[t].made = 1
        /\ hist[u].name = hist[t].name
        /\ fcConfig[hist[t].name].resource = "r1"
        /\ admin.op = "env"
        /\ admin.calls[1].pushed
        /\ admin.calls[1].name = hist[t].name

\* C22: every step in which GetEndpoint, GetLastInvokeEndpoint or
\* UpdateAllFunctionEnv reads the endpoint map is taken by a reader that holds the
\* lock, so that no other thread holds it exclusively, and every step in which one
\* of them writes the map is taken by a writer that holds the lock exclusively.
C22_LockDiscipline ==
    [][/\ \A t \in Threads :
            (/\ \/ pc[t] = "cache" /\ frame[t].reTry > 0
                \/ pc[t] = "lastInvoke"
             /\ pc'[t] # pc[t]) => lock[proc[t]] = 0
       /\ \A t \in Threads :
            (pc[t] \in {"db", "putFunc"} /\ pc'[t] = "ret") => lock[proc[t]] = t
       /\ (admin' # admin /\ admin'.access = "read") =>
            /\ admin'.held \in {"shared", "exclusive"}
            /\ lock["A"] = 0
       /\ (admin' # admin /\ admin'.access = "write") =>
            /\ admin'.held = "exclusive"
            /\ lock["A"] = 0]_vars

\* Positions between f.lock.Lock() and f.lock.Unlock() in GetEndpoint: the store
\* lookup and createFunc.
InCriticalSection(t) == pc[t] \in {"db", "createFn", "createTrigger", "putFunc"}

\* C23: at most one thread of a process is inside the store-lookup/createFunc
\* critical section of GetEndpoint, whatever keys the callers resolve, and it is
\* the thread that holds the lock.
C23_SerializedProvisioning ==
    \A t \in Threads :
        InCriticalSection(t) =>
            /\ lock[proc[t]] = t
            /\ \A u \in Threads :
                  (u # t /\ proc[u] = proc[t]) => ~InCriticalSection(u)

\* C23 witness: a thread is inside createFunc for one key while a thread of the
\* same process that resolves another key waits for the lock.
C23_Witness ==
    \E t, u \in Threads :
        /\ proc[t] = proc[u]
        /\ frame[t].key # frame[u].key
        /\ pc[t] = "createTrigger"
        /\ pc[u] = "lock"

\* The create-function call of the GetEndpoint call of t was rejected and the call
\* never created the function itself.
CreateRejected(t) == hist[t].created /\ hist[t].failed /\ hist[t].made = 0

\* C24: two GetEndpoint calls of two processes for the same key, started before
\* either process had an endpoint for it, never return two different endpoints;
\* when one process created the function, a call of the other process whose
\* create-function call was rejected returns, when it returns an endpoint, the
\* endpoint the creating process wrote to the store.
C24_CrossProcessRace ==
    \A t, u \in Threads :
        (/\ proc[t] # proc[u]
         /\ frame[t].key = frame[u].key
         /\ pc[u] = "ret"
         /\ ~frame[u].err) =>
            /\ (pc[t] = "ret" /\ ~frame[t].err) => frame[t].endpoint = frame[u].endpoint
            /\ (hist[t].made = 1 /\ CreateRejected(u)) =>
                  /\ hist[u].how # "create"
                  /\ frame[u].endpoint = funcStore[frame[u].key]
                  /\ putBy[frame[u].key] = proc[t]

\* C24 witness: process A created the function and returned its endpoint; the
\* create-function call of process B for the same key was rejected and B returned
\* the endpoint A had stored.
C24_Witness ==
    \E t, u \in Threads :
        /\ proc[t] # proc[u]
        /\ frame[t].key = frame[u].key
        /\ pc[t] = "ret" /\ hist[t].how = "create"
        /\ CreateRejected(u)
        /\ pc[u] = "ret" /\ hist[u].how = "db"
        /\ frame[u].endpoint = frame[t].endpoint
        /\ putBy[frame[u].key] = proc[t]

\* C25: when an attempt of a GetEndpoint call created the function and its
\* create-trigger call failed, a later attempt of the call, which finds the
\* function existing without its trigger and the reference function readable,
\* goes on to the create-trigger call, whose acceptance completes provisioning.
C25_RetryCompletesProvisioning ==
    [][\A t \in Threads :
          LET functionName == createFuncName(frame[t].key, frame[t].sdModel) IN
          (/\ pc[t] = "createFn"
           /\ pc'[t] # "createFn"
           /\ hist[t].made = 1
           /\ functionName \in fcFunctions \ fcTriggers
           /\ hist'[t].config = hist[t].config) => pc'[t] = "createTrigger"]_vars

C27_GateCallOrder ==
    \A t \in Threads :
        gate[t].waitToValid =>
            (gate[t].doneTask > 0 => gate[t].decColdNum > 0)

\* Every request that entered the gate has left its handler.
AllFinished ==
    \A t \in Threads : gate[t].handler # "none" => pc[t] = "end"

\* C28: inFlightCount and waitingCount are never negative, and once every request
\* that entered the gate has finished, whether its resolution succeeded, failed
\* or panicked, both are 0 for every model, so that a WaitToValid on any model
\* would be admitted.
C28_NoLeakedSlots ==
    \A p \in Procs, m \in SdModels :
        /\ inFlightCount[p][m] \in Nat
        /\ waitingCount[p][m] \in Nat
        /\ AllFinished =>
              /\ inFlightCount[p][m] = 0
              /\ waitingCount[p][m] = 0
              /\ Admissible(p, m)

\* C28 witness: two requests for one model have finished, the owner after
\* GetEndpoint failed and the other after waiting behind it; a third request
\* would be admitted.
C28_Witness ==
    /\ AllFinished
    /\ \E t, u \in Threads :
          /\ t # u
          /\ gate[t].waitToValid /\ pc[t] = "end" /\ frame[t].err
          /\ gate[u].handler # "none" /\ ~gate[u].waitToValid /\ pc[u] = "end"
          /\ frame[u].sdModel = frame[t].sdModel
          /\ Admissible(proc[t], frame[t].sdModel)

\* C29: a request blocked in WaitToValid behind the cold start of its model
\* eventually returns false from it once the owner of that cold start has called
\* DecColdNum, whether the owner's GetEndpoint succeeded, failed or panicked.
C29_WaitersReleased ==
    \A t \in Threads :
        (/\ pc[t] = "gateWait"
         /\ gate[t].behind # 0
         /\ gate[gate[t].behind].decColdNum > 0)
            ~> (pc[t] # "gateWait" /\ gate[t].handler # "none" /\ ~gate[t].waitToValid)

\* C29 witness: a request that waited behind a cold start whose GetEndpoint failed
\* has returned false from WaitToValid after the owner's DecColdNum.
C29_Witness ==
    \E t, u \in Threads :
        /\ gate[u].behind = t
        /\ gate[t].decColdNum = 1
        /\ frame[t].err
        /\ pc[u] # "gateWait"
        /\ ~gate[u].waitToValid

\* C30: every successful configuration change of a function writes a refresh
\* signal strictly greater than the one the function carried: a step in which an
\* UpdateFunctionEnv call pushes an update that the backend accepts raises the
\* function's refresh signal, however soon it follows the previous change.
C30_RefreshMonotonic ==
    [][\A k \in Keys :
          LET functionName == GetFunctionName(k)
              call == admin'.calls[Len(admin'.calls)] IN
          (/\ admin' # admin
           /\ admin'.calls # <<>>
           /\ admin'.op = "env" \/ Len(admin'.calls) = Len(admin.calls) + 1
           /\ call.key = k
           /\ call.pushed
           /\ call.err = NoError) =>
              fcConfig'[functionName].refresh > fcConfig[functionName].refresh]_vars

\* C31: the reload step of UpdateAllFunctionEnv leaves the cache mapping every key
\* that has a binding in the store to the store's endpoint, and when
\* UpdateAllFunctionEnv has returned no error UpdateFunctionEnv has been called
\* exactly once for every key in the cache.
C31_ReloadThenUpdateAll ==
    /\ [](  (admin.op = "allEnv" /\ admin.pc = "ret" /\ admin.err = NoError) =>
              /\ {admin.calls[i].key : i \in 1 .. Len(admin.calls)} =
                    {k \in Keys : endpoints["A"][k] # NoEndpoint}
              /\ Len(admin.calls) =
                    Cardinality({k \in Keys : endpoints["A"][k] # NoEndpoint}))
    /\ [][(admin' # admin /\ admin'.op = "allEnv" /\ admin'.calls = <<>>) =>
            \A k \in Keys :
                funcStore[k] # NoEndpoint => endpoints'["A"][k] = funcStore[k]]_vars

C33_BackendSelectionFixed ==
    /\ [](\A t \in Threads :
            hist[t].api # "none" => hist[t].api = ConstructedClient(ConfigGlobal))
    /\ [](admin.api # "none" => admin.api = ConstructedClient(ConfigGlobal))
    /\ [][ConstructedClient(ConfigGlobal)' = ConstructedClient(ConfigGlobal)]_vars

\* C33 witness: with no service name configured a request created a function and
\* an environment update was pushed, both through the newer generation's client.
C33_Witness ==
    \E t \in Threads :
        /\ isFc3(ConfigGlobal)
        /\ hist[t].made = 1
        /\ hist[t].api = "fc3Client"
        /\ admin.op = "env"
        /\ admin.calls[1].pushed
        /\ admin.api = "fc3Client"

\* C34: both generations can be selected at start-up: some environment that
\* leaves the service name unset is accepted by InitConfig (it returns no
\* error), and the configuration it builds selects the newer generation.
C34_NewerGenerationSelectable ==
    initErr # "unset" =>
        \E e \in Environments :
            /\ e.SERVICE_NAME = ""
            /\ InitConfigErr(e) = "nil"
            /\ isFc3(BuiltConfig(e))

\* The step completes a successful update for key: UpdateFunctionResource has
\* appended key to success, or an UpdateFunctionEnv(key) call has pushed its
\* update and returned nil.
UpdateSucceeds(key) ==
    /\ admin' # admin
    /\ \/ /\ admin'.op = "resource"
          /\ Len(admin'.success) > Len(admin.success)
          /\ admin'.success[Len(admin'.success)] = key
       \/ /\ admin'.op \in {"env", "allEnv"}
          /\ admin'.calls # <<>>
          /\ admin'.calls[Len(admin'.calls)].key = key
          /\ admin'.calls[Len(admin'.calls)].pushed
          /\ admin'.calls[Len(admin'.calls)].err = NoError

\* C35: a successful UpdateFunctionResource or UpdateFunctionEnv for a key that
\* has a persisted binding, last written before the current second, leaves the
\* binding with a later last-modified time.
C35_UpdateMutatesBinding ==
    [][\A key \in Keys :
          (UpdateSucceeds(key) /\ funcStore[key] # NoEndpoint
                               /\ lastModifyTime[key] < clock) =>
              lastModifyTime'[key] > lastModifyTime[key]]_vars

\* C36: the nested read lock of GetLastInvokeEndpoint never gets stuck: while a
\* call that holds the outer read lock waits for the one inside
\* getEndpointFromCache, some thread of its process (itself, or one it waits
\* for) can take a step, whatever threads have called Lock.
C36_NestedReadLockReturns ==
    \A t \in Threads :
        pc[t] = "rlockInner" =>
            \E u \in Threads : proc[u] = proc[t] /\ ENABLED StepRW(u)

\* C37: f.lastInvokeEndpoint is written only under exclusive access: a thread
\* whose step changes it holds f.lock exclusively when it takes the step.
C37_LastInvokeWrittenExclusively ==
    [][\A t \in Threads :
          (pc'[t] # pc[t] /\ lastInvokeEndpoint'[proc[t]] # lastInvokeEndpoint[proc[t]]) =>
              lock[proc[t]] = t]_vars

\* C38: a control-role request is never forwarded to an empty endpoint: a
\* handler that went on to the downstream call had resolved a non-empty
\* endpoint, and one that resolved none has answered with an error.
C38_NeverForwardsToEmptyEndpoint ==
    \A t \in Threads :
        /\ gate[t].answer = "forward" => frame[t].endpoint # NoEndpoint
        /\ (gate[t].answer \in {"forward", "error"} /\ frame[t].endpoint = NoEndpoint) =>
              gate[t].answer = "error"

\* C39: GetTaskProgress reports progress 1 exactly for a task whose stored
\* status is succeeded or failed, and 0.99 for a task that is not final and
\* whose stored progress is 1.
C39_ProgressOneIffFinal ==
    (reply.op = "progress" /\ reply.http = "200") =>
        /\ reply.progress = "1" <=> reply.row.status \in {TASK_FINISH, TASK_FAILED}
        /\ (reply.row.status \notin {TASK_FINISH, TASK_FAILED} /\ reply.row.progress = "1") =>
              reply.progress = "0.99"

\* C39 witness: a running task whose stored progress is 1 has been reported
\* with 0.99.
C39_Witness ==
    /\ reply.op = "progress"
    /\ reply.row.status = TASK_INPROGRESS
    /\ reply.row.progress = "1"
    /\ reply.progress = "0.99"

\* C40: the task-result query reports succeeded only for a row whose stored
\* status is succeeded and whose stored code is requestOk, whichever predictTask
\* wrote the row.
C40_NonOkNeverSucceeded ==
    (reply.op = "result" /\ reply.err = "" /\ reply.status = TASK_FINISH) =>
        /\ reply.row.status = TASK_FINISH
        /\ reply.row.code = "requestOk"

\* C40 witness: the agent's predictTask stored succeeded with a code that is not
\* requestOk, and the query reported the task as failed.
C40_Witness ==
    /\ reply.op = "result"
    /\ reply.err = ""
    /\ reply.row.status = TASK_FINISH
    /\ reply.row.code = "notOk"
    /\ reply.status = TASK_FAILED

====
